---- MODULE Spec2Model ----
(***************************************************************************)
(* A model of git-changelog-ai: the commit classifier, the message         *)
(* formatter, the basic report builder, the AI summary orchestrator, the   *)
(* changelog pipeline and the WeChat Work webhook truncation.              *)
(*                                                                         *)
(* Long texts (documents, diffs) are kept run-length encoded: a text is a  *)
(* sequence of runs <<class, count>>, count >= 1, adjacent runs of         *)
(* different classes.  A class fixes what the code can observe of a        *)
(* character: whether it is a line feed and how many bytes UTF-8 needs for *)
(* it.  The characters of the two fixed truncation notices have classes of *)
(* their own.                                                              *)
(***************************************************************************)
EXTENDS Integers, Sequences, FiniteSets, TLC

VARIABLES
    pc,         \* position of the running operation
    content,    \* the text an operation is given (a document, a raw diff)
    result,     \* the text the operation produced
    delivered,  \* what send_wecom_message did: [success, posted, payload]
    commits,    \* the commits of the range, newest first (get_git_commits)
    categories, \* what classify_commits returned
    document,   \* the report or changelog an operation returned
    args,       \* generate_changelog's arguments; main's parsed command line
    all_files,  \* the changed files of the range, ignored ones included
    changed_files, \* the changed files that are not ignored
    diff,       \* what get_git_diff returned: [text, covers]
    diff_stat,  \* what get_git_diff_stat returned: [text, covers]
    header,     \* the header of the changelog
    ai_content, \* what generate_ai_changelog returned: [some, text]
    trace       \* the collaborator calls and console output so far

truncVars == <<content, result, delivered>>
classifyVars == <<commits, categories, document>>
pipeVars == <<args, all_files, changed_files, diff, diff_stat, header,
              ai_content, trace>>

vars == <<pc, truncVars, classifyVars, pipeVars>>

----------------------------------------------------------------------------
(* Bounds of the model.                                                    *)

\* the longest text, in runs
MaxRuns == 2
\* the longest commit range, in commits
MaxCommits == 3
\* the longest commit message built from the vocabulary, in words
MaxWords == 2

----------------------------------------------------------------------------
(* Program constants.                                                      *)

DEFAULT_MAX_DIFF_LINES == 3000
DEFAULT_MAX_DIFF_CHARS == 50000
\* max_bytes of truncate_content_for_wecom
WECOM_MAX_BYTES == 4096
\* "Leave some buffer for truncation notice"
WECOM_BUFFER == 100
\* characters removed from the end per round of the truncation loop
WECOM_STEP == 100

----------------------------------------------------------------------------
(* Run-length encoded text.                                                *)

Max(S) == CHOOSE x \in S : \A y \in S : y <= x

\* the element of a singleton set: {F(x) : x \in {e}} has e worked out once
Only(S) == CHOOSE x \in S : TRUE

\* bytes of one character of a class in UTF-8 (str.encode('utf-8'))
Utf8Width(c) ==
    CASE c = "nl" -> 1      \* "\n"
      [] c = "a"  -> 1      \* ASCII other than "\n"
      [] c = "b"  -> 2      \* U+0080..U+07FF
      [] c = "c"  -> 3      \* U+0800..U+FFFF
      [] c = "d"  -> 4      \* U+10000..
      [] c = "n"  -> 1      \* ASCII text of the diff notice
      [] c = "ws" -> 1      \* the space of the webhook notice
      [] c = "w"  -> 3      \* the other characters of the webhook notice

RECURSIVE Norm(_)
\* the normal form: no empty run, no two adjacent runs of one class
Norm(t) ==
    IF t = <<>> THEN <<>>
    ELSE IF t[1][2] = 0 THEN Norm(Tail(t))
    ELSE IF Len(t) >= 2 /\ t[2][1] = t[1][1]
         THEN Norm(<< <<t[1][1], t[1][2] + t[2][2]>> >> \o Tail(Tail(t)))
    ELSE <<t[1]>> \o Norm(Tail(t))

\* s + t
Cat(s, t) == Norm(s \o t)

RECURSIVE CharLen(_)
\* len(t)
CharLen(t) == IF t = <<>> THEN 0 ELSE t[1][2] + CharLen(Tail(t))

RECURSIVE ByteLen(_)
\* len(t.encode('utf-8'))
ByteLen(t) ==
    IF t = <<>> THEN 0 ELSE Utf8Width(t[1][1]) * t[1][2] + ByteLen(Tail(t))

RECURSIVE Take(_, _)
\* the first k characters of t (all of t when it is shorter)
Take(t, k) ==
    IF t = <<>> \/ k <= 0 THEN <<>>
    ELSE IF t[1][2] >= k THEN << <<t[1][1], k>> >>
    ELSE <<t[1]>> \o Take(Tail(t), k - t[1][2])

\* t[:k] with Python's reading of a negative k
PySliceTo(t, k) ==
    IF k >= 0 THEN Take(t, k)
    ELSE Take(t, IF CharLen(t) + k > 0 THEN CharLen(t) + k ELSE 0)

\* t.count('\n')
NlCount(t) ==
    LET RECURSIVE cnt(_)
        cnt(u) == IF u = <<>> THEN 0
                  ELSE (IF u[1][1] = "nl" THEN u[1][2] ELSE 0) + cnt(Tail(u))
    IN cnt(t)

\* t.rfind('\n'): the index of the last line feed, -1 when there is none
RFindNl(t) ==
    LET idx == {i \in 1..Len(t) : t[i][1] = "nl"}
    IN IF idx = {} THEN -1 ELSE CharLen(SubSeq(t, 1, Max(idx))) - 1

\* the index of the k-th line feed of t, k in 1..NlCount(t)
NthNl(t, k) ==
    LET RECURSIVE pos(_, _, _)
        pos(u, j, off) ==
            IF u[1][1] = "nl"
            THEN IF u[1][2] >= j THEN off + j - 1
                 ELSE pos(Tail(u), j - u[1][2], off + u[1][2])
            ELSE pos(Tail(u), j, off + u[1][2])
    IN pos(t, k, 0)

RECURSIVE Drop(_, _)
\* t without its first k characters
Drop(t, k) ==
    IF t = <<>> \/ k <= 0 THEN t
    ELSE IF t[1][2] > k THEN << <<t[1][1], t[1][2] - k>> >> \o Tail(t)
    ELSE Drop(Tail(t), k - t[1][2])

\* t.endswith(s)
EndsWith(t, s) ==
    CharLen(t) >= CharLen(s) /\ Drop(t, CharLen(t) - CharLen(s)) = s

\* whether p is a prefix of t
IsPrefix(p, t) == CharLen(p) <= CharLen(t) /\ Take(t, CharLen(p)) = p


\* len(str(n)) for n >= 0
Digits(n) ==
    IF n < 10 THEN 1 ELSE IF n < 100 THEN 2 ELSE IF n < 1000 THEN 3
    ELSE IF n < 10000 THEN 4 ELSE IF n < 100000 THEN 5 ELSE 6

----------------------------------------------------------------------------
(* git.py: the diff line cap.                                              *)

\* f"\n\n... (diff too long, truncated, total {total} lines) ..."
DiffNotice(total) == << <<"nl", 2>>, <<"n", 48 + Digits(total)>> >>

\* git.py 169-172: lines = output.split('\n'); the first max_lines lines
\* joined again, and the notice, when there are more
CapLinesDropNotice(output) ==
    IF NlCount(output) + 1 > DEFAULT_MAX_DIFF_LINES
    THEN Take(output, NthNl(output, DEFAULT_MAX_DIFF_LINES))
    ELSE output

CapLines(output) ==
    IF NlCount(output) + 1 > DEFAULT_MAX_DIFF_LINES
    THEN Cat(Take(output, NthNl(output, DEFAULT_MAX_DIFF_LINES)),
             DiffNotice(NlCount(output) + 1))
    ELSE output

\* what get_git_diff returns when it has nothing
NoDiff == [text |-> <<>>, covers |-> {}]

\* get_git_diff(from_ref, to_ref, files): scoped and unscoped are the
\* results of run_git_command for "git diff from..to -- files" and for
\* "git diff from..to": [ok, text, covers], covers the files the output is
\* about
get_git_diff(files, scoped, unscoped) ==
    IF files = <<>> THEN NoDiff
    ELSE LET r == IF scoped.ok THEN scoped ELSE unscoped
         IN IF ~r.ok THEN NoDiff
            ELSE [text |-> CapLines(r.text), covers |-> r.covers]

----------------------------------------------------------------------------
(* ai/base.py: the diff character cap of the prompt.                       *)

\* diff[:DEFAULT_MAX_DIFF_CHARS] if len(diff) > DEFAULT_MAX_DIFF_CHARS else diff
DiffContent(d) ==
    IF CharLen(d) > DEFAULT_MAX_DIFF_CHARS
    THEN PySliceTo(d, DEFAULT_MAX_DIFF_CHARS)
    ELSE d

----------------------------------------------------------------------------
(* notify.py                                                               *)

\* "\n\n" + warning sign + variation selector + " " + 23 CJK characters
WecomNotice == << <<"nl", 2>>, <<"w", 2>>, <<"ws", 1>>, <<"w", 23>> >>

RECURSIVE Chop(_, _)
\* while len(truncated.encode('utf-8')) > target_bytes:
\*     truncated = truncated[:len(truncated) - 100]
Chop(truncated, target_bytes) ==
    IF ByteLen(truncated) > target_bytes
    THEN Chop(PySliceTo(truncated, CharLen(truncated) - WECOM_STEP),
              target_bytes)
    ELSE truncated

AtNewlineAlways(truncated) ==
    IF RFindNl(truncated) >= 0
    THEN PySliceTo(truncated, RFindNl(truncated))
    ELSE truncated

\* the cut moved back to the last line feed, when that lies past the middle
AtNewline(truncated) ==
    IF RFindNl(truncated) > CharLen(truncated) \div 2
    THEN PySliceTo(truncated, RFindNl(truncated))
    ELSE truncated

TruncateNoBuffer(text, max_bytes) ==
    IF ByteLen(text) <= max_bytes THEN text
    ELSE Cat(AtNewline(Chop(text, max_bytes)), WecomNotice)

truncate_content_for_wecom(text, max_bytes) ==
    IF ByteLen(text) <= max_bytes THEN text
    ELSE Cat(AtNewline(Chop(text, max_bytes - WECOM_BUFFER)), WecomNotice)

NotDelivered == [success |-> FALSE, posted |-> FALSE, payload |-> <<>>]

\* what the webhook answers: send_wecom_message's outcomes
WebhookOutcomes == {"ok", "api_error", "http_error", "url_error",
                    "json_error", "unexpected"}

\* send_wecom_message(webhook_url, content) under a webhook outcome:
\* whether it succeeded, whether anything was posted, and what
send_wecom_message(has_url, payload, outcome) ==
    IF ~has_url THEN [success |-> FALSE, posted |-> FALSE, payload |-> <<>>]
    ELSE [success |-> outcome = "ok", posted |-> TRUE, payload |-> payload]

send_changelog_to_wecom(has_url, changelog, outcome) ==
    send_wecom_message(has_url,
                       truncate_content_for_wecom(changelog, WECOM_MAX_BYTES),
                       outcome)

----------------------------------------------------------------------------------------------------------------------------------------------------------------------------------------------------
(* constants.py.  A short string (a commit message, a keyword) is the      *)
(* sequence of its characters; a character outside ASCII is written by its *)
(* code point, "u65b0".                                                    *)

\* COMMIT_KEYWORDS, in the order the dict is written (the order .items()
\* yields): <<category, keywords>>
COMMIT_KEYWORDS == <<
    <<"new_features", <<<<"u65b0","u589e">>, <<"u6dfb","u52a0">>,
        <<"a","d","d">>, <<"f","e","a","t">>,
        <<"f","e","a","t","u","r","e">>, <<"u529f","u80fd">>,
        <<"n","e","w">>, <<"i","m","p","l","e","m","e","n","t">>,
        <<"u652f","u6301">>>> >>,
    <<"bug_fixes", <<<<"u4fee","u590d">>, <<"u4fee","u6b63">>,
        <<"f","i","x">>, <<"b","u","g">>, <<"u95ee","u9898">>,
        <<"i","s","s","u","e">>, <<"u9519","u8bef">>,
        <<"r","e","s","o","l","v","e">>, <<"h","o","t","f","i","x">>>> >>,
    <<"performance", <<<<"u4f18","u5316">>, <<"u6027","u80fd">>,
        <<"p","e","r","f">>,
        <<"p","e","r","f","o","r","m","a","n","c","e">>,
        <<"u63d0","u5347">>, <<"u6539","u8fdb">>,
        <<"i","m","p","r","o","v","e">>,
        <<"o","p","t","i","m","i","z","e">>, <<"u52a0","u901f">>>> >>,
    <<"refactoring", <<<<"u91cd","u6784">>,
        <<"r","e","f","a","c","t","o","r">>, <<"u8c03","u6574">>,
        <<"u91cd","u5199">>, <<"r","e","w","r","i","t","e">>,
        <<"r","e","s","t","r","u","c","t","u","r","e">>, <<"u6539","u9020">>>> >>,
    <<"documentation", <<<<"u6587","u6863">>, <<"d","o","c">>,
        <<"d","o","c","u","m","e","n","t","a","t","i","o","n">>,
        <<"u6ce8","u91ca">>, <<"c","o","m","m","e","n","t">>,
        <<"r","e","a","d","m","e">>, <<"c","h","a","n","g","e","l","o","g">>>> >>,
    <<"styling", <<<<"u6837","u5f0f">>, <<"s","t","y","l","e">>,
        <<"c","s","s">>, <<"u","i">>, <<"u754c","u9762">>,
        <<"u7f8e","u5316">>, <<"f","o","r","m","a","t">>,
        <<"u5e03","u5c40">>>> >>,
    <<"configuration", <<<<"u914d","u7f6e">>, <<"c","o","n","f","i","g">>,
        <<"c","o","n","f","i","g","u","r","a","t","i","o","n">>,
        <<"u8bbe","u7f6e">>, <<"s","e","t","t","i","n","g">>,
        <<"b","u","i","l","d">>, <<"c","i">>, <<"c","h","o","r","e">>,
        <<"d","e","p","s">>>> >>
>>

\* CATEGORY_DISPLAY: <<key, title>>, the title by its code points
CATEGORY_DISPLAY == <<
    <<"new_features", <<"u2728"," ","u65b0","u529f","u80fd">>>>,
    <<"bug_fixes", <<"u1f41b"," ","u95ee","u9898","u4fee","u590d">>>>,
    <<"performance", <<"u26a1"," ","u6027","u80fd","u4f18","u5316">>>>,
    <<"refactoring", <<"u1f528"," ","u4ee3","u7801","u91cd","u6784">>>>,
    <<"styling", <<"u1f3a8"," ","u6837","u5f0f","u8c03","u6574">>>>,
    <<"configuration", <<"u1f527"," ","u914d","u7f6e","u53d8","u66f4">>>>,
    <<"documentation", <<"u1f4dd"," ","u6587","u6863","u66f4","u65b0">>>>,
    <<"others", <<"u1f4e6"," ","u5176","u4ed6","u53d8","u66f4">>>>
>>

SKIP_COMMIT_KEYWORDS == <<<<"m","e","r","g","e">>, <<"v","e","r","s","i","o","n">>, <<"u7248","u672c">>, <<"r","e","l","e","a","s","e">>>>

COMMIT_PREFIXES == <<
    <<"f","e","a","t",":">>, <<"f","i","x",":">>, <<"c","h","o","r","e",":">>,
    <<"d","o","c","s",":">>, <<"s","t","y","l","e",":">>, <<"r","e","f","a","c","t","o","r",":">>,
    <<"p","e","r","f",":">>, <<"t","e","s","t",":">>
>>

\* IGNORE_PATTERNS
IGNORE_PATTERNS == <<
    <<"C","H","A","N","G","E","L","O","G",".","m","d">>,
    <<"C","H","A","N","G","E","L","O","G","*",".","m","d">>,
    <<"p","a","c","k","a","g","e","-","l","o","c","k",".","j","s","o","n">>,
    <<"y","a","r","n",".","l","o","c","k">>,
    <<"p","n","p","m","-","l","o","c","k",".","y","a","m","l">>
>>

----------------------------------------------------------------------------
(* Short strings.                                                          *)

UpperCase == <<"A","B","C","D","E","F","G","H","I","J","K","L","M",
               "N","O","P","Q","R","S","T","U","V","W","X","Y","Z">>

LowerCase == <<"a","b","c","d","e","f","g","h","i","j","k","l","m",
               "n","o","p","q","r","s","t","u","v","w","x","y","z">>

\* str.lower() of one character of the model's alphabet
Lower(c) ==
    IF \E i \in 1..Len(UpperCase) : UpperCase[i] = c
    THEN LowerCase[CHOOSE i \in 1..Len(UpperCase) : UpperCase[i] = c]
    ELSE c

\* str.upper() of one character of the model's alphabet
Upper(c) ==
    IF \E i \in 1..Len(LowerCase) : LowerCase[i] = c
    THEN UpperCase[CHOOSE i \in 1..Len(LowerCase) : LowerCase[i] = c]
    ELSE c

\* s.lower()
LowerStr(s) == [i \in 1..Len(s) |-> Lower(s[i])]

\* sub in s
Contains(s, sub) ==
    \E i \in 1..(Len(s) - Len(sub) + 1) : SubSeq(s, i, i + Len(sub) - 1) = sub

\* s.startswith(p)
StartsWith(s, p) == Len(s) >= Len(p) /\ SubSeq(s, 1, Len(p)) = p

\* any(keyword in message for keyword in keywords)
AnyIn(keywords, message) ==
    \E k \in 1..Len(keywords) : Contains(message, keywords[k])

----------------------------------------------------------------------------
(* core.py: classify_commits.                                              *)

\* {key: [] for key, _ in CATEGORY_DISPLAY}
NoCategories ==
    [key \in {CATEGORY_DISPLAY[i][1] : i \in 1..Len(CATEGORY_DISPLAY)} |-> <<>>]

\* the categories whose keyword list matches the lower-cased message, as
\* indices of COMMIT_KEYWORDS
Matching(message) ==
    {m \in 1..Len(COMMIT_KEYWORDS) : AnyIn(COMMIT_KEYWORDS[m][2], message)}

LastMatch(message) ==
    IF Matching(message) = {} THEN "others"
    ELSE COMMIT_KEYWORDS[Max(Matching(message))][1]

RECURSIVE MatchFrom(_, _)
\* core.py 46-54: the loop over COMMIT_KEYWORDS.items() from the m-th
\* entry on; it breaks at the first category with a keyword in the message
MatchFrom(message, m) ==
    IF m > Len(COMMIT_KEYWORDS) THEN "others"
    ELSE IF AnyIn(COMMIT_KEYWORDS[m][2], message) THEN COMMIT_KEYWORDS[m][1]
    ELSE MatchFrom(message, m + 1)

FirstMatch(message) == MatchFrom(message, 1)

RECURSIVE PlaceInAll(_, _, _, _)
PlaceInAll(cats, commit, message, m) ==
    IF m > Len(COMMIT_KEYWORDS) THEN cats
    ELSE PlaceInAll(IF AnyIn(COMMIT_KEYWORDS[m][2], message)
                    THEN [cats EXCEPT ![COMMIT_KEYWORDS[m][1]] = Append(@, commit)]
                    ELSE cats,
                    commit, message, m + 1)

PlaceNoBreak(cats, commit, message) ==
    IF AnyIn(SKIP_COMMIT_KEYWORDS, message) THEN cats
    ELSE IF Matching(message) = {}
    THEN [cats EXCEPT !["others"] = Append(@, commit)]
    ELSE PlaceInAll(cats, commit, message, 1)

PlaceSkipLast(cats, commit, message) ==
    IF Matching(message) # {}
    THEN [cats EXCEPT ![FirstMatch(message)] = Append(@, commit)]
    ELSE IF AnyIn(SKIP_COMMIT_KEYWORDS, message) THEN cats
    ELSE [cats EXCEPT !["others"] = Append(@, commit)]

\* core.py 41-54, one round of the loop for a commit and its lower-cased
\* message
Place(cats, commit, message) ==
    IF AnyIn(SKIP_COMMIT_KEYWORDS, message) THEN cats
    ELSE [cats EXCEPT ![FirstMatch(message)] = Append(@, commit)]

RECURSIVE ClassifyFrom(_, _, _)
\* the loop of classify_commits from the i-th commit on
ClassifyFrom(list, i, cats) ==
    IF i > Len(list) THEN cats
    ELSE ClassifyFrom(list, i + 1,
             Only({Place(c, list[i], message) :
                     c \in {cats}, message \in {LowerStr(list[i].message)}}))

classify_commits(list) == ClassifyFrom(list, 1, NoCategories)

----------------------------------------------------------------------------
(* core.py: format_commit_message.                                         *)

IsSpace(c) == c \in {" ", "\t", "\n"}

RECURSIVE LStrip(_)
LStrip(s) == IF s # <<>> /\ IsSpace(s[1]) THEN LStrip(Tail(s)) ELSE s

RECURSIVE RStrip(_)
RStrip(s) ==
    IF s # <<>> /\ IsSpace(s[Len(s)]) THEN RStrip(SubSeq(s, 1, Len(s) - 1))
    ELSE s

\* s.strip()
Strip(s) == RStrip(LStrip(s))

\* the prefixes of COMMIT_PREFIXES the message starts with, case ignored
PrefixHits(message) ==
    {p \in 1..Len(COMMIT_PREFIXES) :
        StartsWith(LowerStr(message), COMMIT_PREFIXES[p])}

\* core.py 69-73: the first matching prefix removed, the rest stripped
StripPrefix(message) ==
    IF PrefixHits(message) = {} THEN message
    ELSE LET p == CHOOSE q \in PrefixHits(message) :
                      \A r \in PrefixHits(message) : q <= r
         IN Strip(SubSeq(message, Len(COMMIT_PREFIXES[p]) + 1, Len(message)))

CapitalizeSwap(formatted) ==
    IF formatted = <<>> THEN formatted
    ELSE <<IF Upper(formatted[1]) = formatted[1] THEN Lower(formatted[1])
           ELSE Upper(formatted[1])>> \o Tail(formatted)

\* formatted[0].upper() + formatted[1:] if formatted else formatted
Capitalize(formatted) ==
    IF formatted = <<>> THEN formatted
    ELSE <<Upper(formatted[1])>> \o Tail(formatted)

format_commit_message(message) == Capitalize(StripPrefix(message))

----------------------------------------------------------------------------
(* git.py: should_ignore_file.                                             *)

RECURSIVE fnmatch(_, _)
\* fnmatch.fnmatch(name, pattern) for patterns whose only wildcard is "*"
fnmatch(name, pattern) ==
    IF pattern = <<>> THEN name = <<>>
    ELSE IF pattern[1] = "*"
         THEN \E k \in 0..Len(name) :
                  fnmatch(SubSeq(name, k + 1, Len(name)), Tail(pattern))
    ELSE /\ name # <<>>
         /\ name[1] = pattern[1]
         /\ fnmatch(Tail(name), Tail(pattern))

\* os.path.basename(filepath)
basename(filepath) ==
    LET slashes == {i \in 1..Len(filepath) : filepath[i] = "/"}
    IN IF slashes = {} THEN filepath
       ELSE SubSeq(filepath, Max(slashes) + 1, Len(filepath))

should_ignore_file(filepath) ==
    \E i \in 1..Len(IGNORE_PATTERNS) :
        \/ fnmatch(filepath, IGNORE_PATTERNS[i])
        \/ fnmatch(basename(filepath), IGNORE_PATTERNS[i])

----------------------------------------------------------------------------
(* core.py: generate_basic_changelog.  A report is the sequence of the     *)
(* pieces the code concatenates, each <<kind, values...>>.                 *)

CountCategories(cats) == Cardinality({k \in DOMAIN cats : cats[k] # <<>>})

\* sum(len(v) for v in categories.values())
TotalCategorized(cats) ==
    LET RECURSIVE sum(_)
        sum(keys) == IF keys = {} THEN 0
                     ELSE LET k == CHOOSE x \in keys : TRUE
                          IN Len(cats[k]) + sum(keys \ {k})
    IN sum(DOMAIN cats)

\* hash[:7]
ShortHash(hash) == SubSeq(hash, 1, IF Len(hash) < 7 THEN Len(hash) ELSE 7)

\* f"- {msg}{suffix}" for the items of one category
Bullets(items, verbose) ==
    [i \in 1..Len(items) |->
        <<"bullet", format_commit_message(items[i].message),
          IF verbose THEN ShortHash(items[i].hash) ELSE <<>> >>]

RECURSIVE SectionsAll(_, _, _)
SectionsAll(cats, verbose, k) ==
    IF k > Len(CATEGORY_DISPLAY) THEN <<>>
    ELSE << << <<"heading", CATEGORY_DISPLAY[k][2]>> >>
            \o Bullets(cats[CATEGORY_DISPLAY[k][1]], verbose) >>
         \o SectionsAll(cats, verbose, k + 1)

RECURSIVE Sections(_, _, _)
\* core.py 155-164: changelog_parts, from the k-th entry of
\* CATEGORY_DISPLAY on: a heading and the bullets per category with items
Sections(cats, verbose, k) ==
    IF k > Len(CATEGORY_DISPLAY) THEN <<>>
    ELSE (IF cats[CATEGORY_DISPLAY[k][1]] # <<>>
          THEN << << <<"heading", CATEGORY_DISPLAY[k][2]>> >>
                  \o Bullets(cats[CATEGORY_DISPLAY[k][1]], verbose) >>
          ELSE <<>>)
         \o Sections(cats, verbose, k + 1)

RECURSIVE Join(_)
\* '\n\n'.join(changelog_parts)
Join(parts) ==
    IF parts = <<>> THEN <<>>
    ELSE IF Len(parts) = 1 THEN parts[1]
    ELSE parts[1] \o << <<"blank">> >> \o Join(Tail(parts))

\* the <details> block of the diff statistics, "" for empty statistics
Details(stat) ==
    IF stat.text # <<>> THEN << <<"details", stat>> >> ELSE <<>>

\* core.py 154-174, for the categories classify_commits returned
BasicReport(cats, files, stat, verbose) ==
    Join(Sections(cats, verbose, 1))
    \o << <<"stats_basic", TotalCategorized(cats), Len(files)>> >>
    \o Details(stat)

generate_basic_changelog(list, files, stat, verbose) ==
    IF list = <<>> THEN << <<"no_changes_found">> >>
    ELSE Only({BasicReport(cats, files, stat, verbose) :
                 cats \in {classify_commits(list)}})

----------------------------------------------------------------------------
(* git.py: get_git_diff_stat.                                              *)

\* get_git_diff_stat(from_ref, to_ref, files): scoped and unscoped are the
\* results of run_git_command for "git diff from..to --stat -- files" and
\* for "git diff from..to --stat"
get_git_diff_stat(files, scoped, unscoped) ==
    IF files = <<>> THEN NoDiff
    ELSE LET r == IF scoped.ok THEN scoped ELSE unscoped
         IN IF r.ok THEN [text |-> r.text, covers |-> r.covers] ELSE NoDiff

----------------------------------------------------------------------------
(* ai/base.py                                                              *)

\* Optional[str]: None, or a text (a sequence of pieces)
None == [some |-> FALSE, text |-> <<>>]
Some(text) == [some |-> TRUE, text |-> text]
\* the truth value Python gives it: neither None nor ""
Truthy(opt) == opt.some /\ opt.text # <<>>

\* AI_CONFIGS
AI_CONFIGS == {"gemini", "openai", "deepseek"}

\* what the provider's endpoint answers to the request
AiResponses == {"http_error", "url_error", "malformed", "null_text",
                "empty_text", "text"}

\* call_ai_api(prompt, provider): has_key is whether the provider's API key
\* is in the environment, response what the endpoint answers (asked only
\* with a configuration and a key)
call_ai_api(prompt, provider, has_key, response) ==
    IF provider \notin AI_CONFIGS THEN None
    ELSE IF ~has_key THEN None
    ELSE CASE response = "text" -> Some(<< <<"ai_text">> >>)
           [] response = "empty_text" -> Some(<<>>)
           [] OTHER -> None

\* whether call_ai_api sends the request
Requests(provider, has_key) == provider \in AI_CONFIGS /\ has_key

\* build_ai_prompt: the values the fixed template is filled with
build_ai_prompt(from_ref, to_ref, list, d, stat) ==
    [from_ref |-> from_ref, to_ref |-> to_ref,
     n_commits |-> Len(list),
     commit_text |-> [i \in 1..Len(list) |->
                        <<ShortHash(list[i].hash), list[i].message,
                          list[i].author, list[i].date>>],
     diff_stat |-> stat,
     diff_content |-> [text |-> DiffContent(d.text), covers |-> d.covers]]

----------------------------------------------------------------------------
(* core.py: generate_ai_changelog and generate_changelog.                  *)

\* [f for f in all_files if not should_ignore_file(f)]
NotIgnored(files) == SelectSeq(files, LAMBDA f : ~should_ignore_file(f))
Ignored(files) == SelectSeq(files, LAMBDA f : should_ignore_file(f))

\* core.py 241: the document of an empty range
EmptyRangeDocument(from_ref, to_ref) ==
    << <<"title">>, <<"range", from_ref, to_ref>>, <<"no_changes">> >>

DateInfoSwapped(list) ==
    IF list[1].date = list[Len(list)].date
    THEN <<"release_date", list[1].date>>
    ELSE <<"period", list[1].date, list[Len(list)].date>>

\* core.py 262-263: first_date, last_date = commits[-1], commits[0]
DateInfo(list) ==
    IF list[Len(list)].date = list[1].date
    THEN <<"release_date", list[1].date>>
    ELSE <<"period", list[Len(list)].date, list[1].date>>

\* core.py 260-264
Header(from_ref, to_ref, list) ==
    << <<"title">>, <<"range", from_ref, to_ref>> >>
    \o (IF list # <<>> THEN <<DateInfo(list)>> ELSE <<>>)

DryRunBodyIsSentinel == << <<"dry_run_sentinel">> >>

\* core.py 273: the body of a dry run
DryRunBody == << <<"dry_run_placeholder">> >>

\* core.py 213: what generate_ai_changelog returns in a dry run
DryRunSentinel == Some(<< <<"dry_run_sentinel">> >>)

\* core.py 279: the statistics line of AI mode
AiStats(list, files) == << <<"stats_ai", Len(list), Len(files)>> >>

AiContentNoFallback(ai, list, files, stat, verbose) ==
    IF ai.some
    THEN ai.text \o (IF stat.text # <<>>
                     THEN AiStats(list, files) \o Details(stat)
                     ELSE <<>>)
    ELSE << <<"ai_error">> >>

\* core.py 275-283: the content of AI mode, given what
\* generate_ai_changelog returned
AiContent(ai, list, files, stat, verbose) ==
    IF Truthy(ai)
    THEN ai.text \o (IF stat.text # <<>>
                     THEN AiStats(list, files) \o Details(stat)
                     ELSE <<>>)
    ELSE generate_basic_changelog(list, files, stat, verbose)

UsesAiAlways(a) == a.use_ai

\* core.py 267, 203: whether generate_ai_changelog is called, and whether
\* it goes on to call_ai_api
CallsOrchestrator(a) == a.use_ai \/ a.dry_run
CallsAi(a) == CallsOrchestrator(a) /\ ~a.dry_run

ReturnsNever(list) == FALSE

\* core.py 240: if not commits: return
ReturnsEarly(list) == list = <<>>

\* console output and collaborator calls are logged as <<kind, what>>
Called(name) == <<"call", name>>
Printed(what) == <<"print", what>>

Has(tr, e) == \E i \in 1..Len(tr) : tr[i] = e

----------------------------------------------------------------------------
(* The inputs the operations are tried on.                                 *)

Range(f) == {f[i] : i \in DOMAIN f}

\* a git commit hash is 40 hexadecimal digits ('%H')
HashLen == 40

\* the hash of the i-th commit of a range: no two commits share one
Hash(i) == [j \in 1..HashLen |-> <<"1", "2", "3", "4", "5", "6", "7", "8">>[i]]

\* a CommitInfo as get_git_commits builds it
Commit(i, message, date) ==
    [hash |-> Hash(i), author |-> "dev", email |-> "dev@example.com",
     date |-> date, message |-> message]

\* words to build commit messages from: a word per category of
\* COMMIT_KEYWORDS, a skip word, prefixes, a blank and a word no list has
Vocabulary == {
    <<"f","e","a","t",":">>,
    <<"F","i","x">>,
    <<"p","e","r","f">>,
    <<"r","e","f","a","c","t","o","r">>,
    <<"d","o","c">>,
    <<"s","t","y","l","e">>,
    <<"c","o","n","f","i","g">>,
    <<"M","e","r","g","e">>,
    <<"t","e","s","t",":">>,
    <<" ">>,
    <<"x">>
}

RECURSIVE Flatten(_)
Flatten(ws) == IF ws = <<>> THEN <<>> ELSE ws[1] \o Flatten(Tail(ws))

\* the messages of at most MaxWords words
Messages ==
    {Flatten(ws) : ws \in UNION {[1..n -> Vocabulary] : n \in 0..MaxWords}}

\* the messages of longer ranges: some of one category each, one that
\* matches two categories and one that matches three, one that is skipped
\* though it matches a category, one that matches none
MessagePool == {
    <<"f","e","a","t",":"," ","x">>,
    <<"F","i","x"," ","p","e","r","f"," ","d","o","c">>,
    <<"d","o","c"," ","s","t","y","l","e">>,
    <<"s","t","y","l","e"," ","x">>,
    <<"M","e","r","g","e"," ","f","e","a","t",":"," ","x">>,
    <<"x">>
}

\* the ranges of at most MaxCommits commits, each of a kind <<message, date>>
RangesOf(kinds) ==
    UNION {{[i \in 1..n |-> Commit(i, k[i][1], k[i][2])] : k \in [1..n -> kinds]} :
              n \in 0..MaxCommits}

\* the ranges the classifier and the report builder are tried on
ClassifyRanges ==
    RangesOf(MessagePool \X {"2024-01-01"})
    \cup {<<Commit(1, m, "2024-01-01")>> : m \in Messages}

\* the ranges the pipeline is tried on: a commit that is classified and a
\* commit that is skipped, of different dates, in any order
PipelineRanges ==
    RangesOf({<<<<"f","e","a","t",":"," ","x">>, "2024-01-01">>,
              <<<<"M","e","r","g","e"," ","x">>, "2024-01-05">>})

AppPy == <<"s","r","c","/","a","p","p",".","p","y">>
ChangelogV1 == <<"d","o","c","s","/","C","H","A","N","G","E","L","O","G","-","v","1",".","m","d">>

\* what "git diff --name-only" lists
FileLists == {<<>>, <<AppPy>>, <<ChangelogV1>>, <<ChangelogV1, AppPy>>}

\* the output of "git diff" and of "git diff --stat" about a set of files
DiffOf(fileset) ==
    [text |-> IF fileset = {} THEN <<>>
              ELSE << <<"a", 40 * Cardinality(fileset)>>, <<"nl", 1>> >>,
     covers |-> fileset]
StatOf(fileset) ==
    [text |-> IF fileset = {} THEN <<>>
              ELSE << <<"a", 20 * Cardinality(fileset)>>, <<"nl", 1>> >>,
     covers |-> fileset]

\* run_git_command's answer: (success, output)
GitResult(ok, out) == [ok |-> ok, text |-> out.text, covers |-> out.covers]

\* generate_changelog's defaults
DefaultArgs ==
    [from_ref |-> "v1", to_ref |-> "v2", use_ai |-> FALSE,
     ai_provider |-> "gemini", verbose |-> FALSE, dry_run |-> FALSE]

PipelineIdle ==
    /\ args = DefaultArgs
    /\ all_files = <<>>
    /\ changed_files = <<>>
    /\ diff = NoDiff
    /\ diff_stat = NoDiff
    /\ header = <<>>
    /\ ai_content = None
    /\ trace = <<>>

TruncIdle ==
    /\ content = <<>>
    /\ result = <<>>
    /\ delivered = NotDelivered

----------------------------------------------------------------------------
(* The classifier and the basic report builder, each run on a range.       *)

InitClassify ==
    /\ pc = "commits"
    /\ commits \in ClassifyRanges
    /\ categories = NoCategories
    /\ document = <<>>
    /\ PipelineIdle
    /\ TruncIdle

\* classify_commits(commits)
ClassifyCommits ==
    /\ pc = "commits"
    /\ categories' = classify_commits(commits)
    /\ pc' = "classify_commits"
    /\ UNCHANGED <<commits, document, truncVars, pipeVars>>

\* generate_basic_changelog(commits, changed_files, diff_stat, verbose)
GenerateBasicChangelog ==
    /\ pc = "commits"
    /\ \E fs \in {<<>>, <<AppPy>>}, v \in BOOLEAN :
         /\ changed_files' = fs
         /\ diff_stat' = StatOf(Range(fs))
         /\ args' = [args EXCEPT !.verbose = v]
         /\ document' = generate_basic_changelog(commits, fs, StatOf(Range(fs)), v)
    /\ pc' = "generate_basic_changelog"
    /\ UNCHANGED <<commits, categories, truncVars, all_files, diff, header,
                   ai_content, trace>>

NextClassify == ClassifyCommits \/ GenerateBasicChangelog

SpecClassify == InitClassify /\ [][NextClassify]_vars

----------------------------------------------------------------------------
(* generate_changelog, from one collaborator call to the next.             *)

\* a provider of AI_CONFIGS, and a name that is not in it
Providers == {"gemini", "unsupported"}

InitPipeline ==
    /\ pc = "generate_changelog"
    /\ args \in [from_ref : {"v1"}, to_ref : {"v2"}, use_ai : BOOLEAN,
                 ai_provider : Providers, verbose : BOOLEAN, dry_run : BOOLEAN]
    /\ commits = <<>>
    /\ categories = NoCategories
    /\ document = <<>>
    /\ all_files = <<>>
    /\ changed_files = <<>>
    /\ diff = NoDiff
    /\ diff_stat = NoDiff
    /\ header = <<>>
    /\ ai_content = None
    /\ trace = <<>>
    /\ TruncIdle

\* core.py 236-243: get_git_commits answers; an empty range returns at once
GetGitCommits ==
    /\ pc = "generate_changelog"
    /\ \E list \in PipelineRanges :
         /\ commits' = list
         /\ IF ReturnsEarly(list)
            THEN /\ document' = EmptyRangeDocument(args.from_ref, args.to_ref)
                 /\ trace' = trace \o <<Printed("analyzing"),
                                        Called("get_git_commits")>>
                 /\ pc' = "returned"
            ELSE /\ document' = document
                 /\ trace' = trace \o <<Printed("analyzing"),
                                        Called("get_git_commits"),
                                        Printed("found_commits")>>
                 /\ pc' = "get_git_diff_files"
    /\ UNCHANGED <<categories, truncVars, args, all_files, changed_files, diff,
                   diff_stat, header, ai_content>>

\* core.py 245-253: the changed files, and those of them not ignored
GetGitDiffFiles ==
    /\ pc = "get_git_diff_files"
    /\ \E fs \in FileLists :
         /\ all_files' = fs
         /\ changed_files' = NotIgnored(fs)
    /\ trace' = trace \o <<Called("get_git_diff_files"), Printed("file_changes")>>
    /\ pc' = "get_git_diff"
    /\ UNCHANGED <<classifyVars, truncVars, args, diff, diff_stat, header,
                   ai_content>>

\* core.py 256: the diff of the files not ignored; either git command may
\* fail
GetGitDiff ==
    /\ pc = "get_git_diff"
    /\ \E ok1 \in BOOLEAN, ok2 \in BOOLEAN :
         diff' = get_git_diff(changed_files,
                              GitResult(ok1, DiffOf(Range(changed_files))),
                              GitResult(ok2, DiffOf(Range(all_files))))
    /\ trace' = Append(trace, Called("get_git_diff"))
    /\ pc' = "get_git_diff_stat"
    /\ UNCHANGED <<classifyVars, truncVars, args, all_files, changed_files,
                   diff_stat, header, ai_content>>

\* core.py 213, 272-273: a dry run prints its report and returns the
\* placeholder
DryRun(stat) ==
    /\ ai_content' = DryRunSentinel
    /\ trace' = trace \o
           <<Called("get_git_diff_stat"), Called("generate_ai_changelog"),
             <<"print_dry_run_info",
               build_ai_prompt(args.from_ref, args.to_ref, commits, diff, stat)>> >>
           \o (IF Ignored(all_files) # <<>>
               THEN << <<"print_excluded", Ignored(all_files)>> >>
               ELSE <<>>)
    /\ document' = Header(args.from_ref, args.to_ref, commits) \o DryRunBody
    /\ pc' = "returned"

\* core.py 215-216: generate_ai_changelog goes on to call_ai_api
LiveAi ==
    /\ ai_content' = ai_content
    /\ trace' = trace \o
           <<Called("get_git_diff_stat"), Called("generate_ai_changelog"),
             Printed("using_ai")>>
    /\ document' = document
    /\ pc' = "call_ai_api"

\* core.py 285-288: basic mode
BasicMode(stat) ==
    /\ ai_content' = ai_content
    /\ trace' = trace \o <<Called("get_git_diff_stat"), Printed("classifying")>>
    /\ document' = Header(args.from_ref, args.to_ref, commits)
                   \o generate_basic_changelog(commits, changed_files, stat,
                                               args.verbose)
    /\ pc' = "returned"

\* core.py 257-288: the diff statistics, the header, and the mode's branch
\* up to its return or to the call of the AI service
GetGitDiffStat ==
    /\ pc = "get_git_diff_stat"
    /\ \E ok1 \in BOOLEAN, ok2 \in BOOLEAN :
         LET stat == get_git_diff_stat(changed_files,
                         GitResult(ok1, StatOf(Range(changed_files))),
                         GitResult(ok2, StatOf(Range(all_files))))
         IN /\ diff_stat' = stat
            /\ header' = Header(args.from_ref, args.to_ref, commits)
            /\ IF ~CallsOrchestrator(args) THEN BasicMode(stat)
               ELSE IF CallsAi(args) THEN LiveAi
               ELSE DryRun(stat)
    /\ UNCHANGED <<commits, categories, truncVars, args, all_files,
                   changed_files, diff>>

\* what call_ai_api prints before it returns None
AiFailure(provider, has_key, response) ==
    IF provider \notin AI_CONFIGS THEN <<Printed("unsupported_provider")>>
    ELSE IF ~has_key THEN <<Printed("api_key_not_configured")>>
    ELSE <<Called("urlopen")>>
         \o CASE response = "http_error" -> <<Printed("http_error")>>
              [] response = "url_error" -> <<Printed("network_error")>>
              [] response = "malformed" -> <<Printed("exception")>>
              [] OTHER -> <<>>

\* core.py 216, 272-288: call_ai_api answers, and the changelog is put
\* together
CallAiApi ==
    /\ pc = "call_ai_api"
    /\ \E has_key \in BOOLEAN, response \in AiResponses :
         LET ai == call_ai_api(build_ai_prompt(args.from_ref, args.to_ref,
                                               commits, diff, diff_stat),
                               args.ai_provider, has_key, response)
         IN /\ ai_content' = ai
            /\ trace' = trace \o <<Called("call_ai_api")>>
                        \o AiFailure(args.ai_provider, has_key, response)
                        \o (IF args.dry_run \/ Truthy(ai) THEN <<>>
                            ELSE <<Printed("falling_back")>>)
    /\ document' = header \o
         (IF args.dry_run THEN DryRunBody
          ELSE AiContent(ai_content', commits, changed_files, diff_stat,
                         args.verbose))
    /\ pc' = "returned"
    /\ UNCHANGED <<commits, categories, truncVars, args, all_files,
                   changed_files, diff, diff_stat, header>>

NextPipeline ==
    \/ GetGitCommits
    \/ GetGitDiffFiles
    \/ GetGitDiff
    \/ GetGitDiffStat
    \/ CallAiApi

SpecPipeline == InitPipeline /\ [][NextPipeline]_vars

----------------
(* The texts the truncations are tried on.                                 *)

TextsOver(classes, lens) ==
    {Norm(t) : t \in UNION {[1..n -> classes \X lens] : n \in 0..MaxRuns}}

\* documents around the webhook's byte cap, of 1- to 4-byte characters
Documents == TextsOver({"nl", "a", "b", "c", "d"}, {1, 60, 1366, 4097})

\* raw diffs around the line cap and the character cap
RawDiffs == TextsOver({"nl", "a", "c"}, {1, 2999, 3001, 50001})

----------------------------------------------------------------------------
(* The truncations, each run on a text of its own.                         *)

InitTrunc ==
    /\ \/ pc = "document" /\ content \in Documents
       \/ pc = "raw_diff" /\ content \in RawDiffs
    /\ result = <<>>
    /\ delivered = NotDelivered
    /\ commits = <<>>
    /\ categories = NoCategories
    /\ document = <<>>
    /\ PipelineIdle

\* get_git_diff on a repository whose diff is content; the scoped git
\* command may fail and the unscoped one answer
GitDiff ==
    /\ pc = "raw_diff"
    /\ \E ok1 \in BOOLEAN :
         result' = get_git_diff(<<"f">>,
                                [ok |-> ok1, text |-> content, covers |-> {"f"}],
                                [ok |-> TRUE, text |-> content, covers |-> {"f"}]).text
    /\ pc' = "get_git_diff"
    /\ UNCHANGED <<content, delivered, classifyVars, pipeVars>>

\* build_ai_prompt's diff_content, for the diff get_git_diff returned
PromptDiff ==
    /\ pc = "get_git_diff"
    /\ result' = DiffContent(result)
    /\ pc' = "build_ai_prompt"
    /\ UNCHANGED <<content, delivered, classifyVars, pipeVars>>

\* send_changelog_to_wecom(webhook_url, content)
SendWecom ==
    /\ pc = "document"
    /\ result' = truncate_content_for_wecom(content, WECOM_MAX_BYTES)
    /\ \E has_url \in BOOLEAN, outcome \in WebhookOutcomes :
         delivered' = send_changelog_to_wecom(has_url, content, outcome)
    /\ pc' = "send_changelog_to_wecom"
    /\ UNCHANGED <<content, classifyVars, pipeVars>>

NextTrunc == GitDiff \/ PromptDiff \/ SendWecom

SpecTrunc == InitTrunc /\ [][NextTrunc]_vars

----------------------------------------------------------------------------
(* format_commit_message, run on a message and again on its own result.    *)
(* content holds the message, result format_commit_message(content) and    *)
(* document the result of formatting result again.                         *)

\* words to build messages from: a prefix, a prefix in capitals, a prefix
\* without its colon, a blank, a lower-case and an upper-case letter
FormatVocabulary == {
    <<"f","e","a","t",":">>,
    <<"F","I","X",":">>,
    <<"d","o","c","s">>,
    <<" ">>,
    <<"x">>,
    <<"X">>
}

\* the messages of at most MaxWords + 1 words
FormatMessages ==
    {Flatten(ws) :
        ws \in UNION {[1..n -> FormatVocabulary] : n \in 0..(MaxWords + 1)}}

InitFormat ==
    /\ pc = "message"
    /\ content \in FormatMessages
    /\ result = <<>>
    /\ delivered = NotDelivered
    /\ commits = <<>>
    /\ categories = NoCategories
    /\ document = <<>>
    /\ PipelineIdle

\* format_commit_message(message)
FormatCommitMessage ==
    /\ pc = "message"
    /\ result' = format_commit_message(content)
    /\ pc' = "format_commit_message"
    /\ UNCHANGED <<content, delivered, classifyVars, pipeVars>>

\* format_commit_message(format_commit_message(message))
FormatAgain ==
    /\ pc = "format_commit_message"
    /\ document' = format_commit_message(result)
    /\ pc' = "format_again"
    /\ UNCHANGED <<content, result, delivered, commits, categories, pipeVars>>

NextFormat == FormatCommitMessage \/ FormatAgain

SpecFormat == InitFormat /\ [][NextFormat]_vars

----------------------------------------------------------------------------
(* cli.py: main and send_existing_changelog, from one collaborator call to *)
(* the next.  args holds the parsed command line, content the changelog,   *)
(* result what went to the webhook; pc ends at "return" (exit status 0) or *)
(* at "exit_1" (sys.exit(1)).                                              *)

\* the parsed command line: flags, whether the positional from_ref and
\* to_ref are given, --recent (0 when absent), whether --output and --input
\* are given, whether --webhook-url or WECOM_WEBHOOK_URL gives a URL
CliArgs ==
    [version : BOOLEAN, notify : BOOLEAN, list : BOOLEAN, recent : {0, 2},
     from_ref : BOOLEAN, to_ref : BOOLEAN, output : BOOLEAN,
     webhook : BOOLEAN, webhook_url : BOOLEAN, input : {FALSE}]

\* the command lines of notify mode
NotifyArgs ==
    [version : {FALSE}, notify : {TRUE}, list : {FALSE}, recent : {0},
     from_ref : {FALSE}, to_ref : {FALSE}, output : {FALSE},
     webhook : BOOLEAN, webhook_url : BOOLEAN, input : BOOLEAN]

\* changelogs generate_changelog may return: a short one and one over the
\* webhook's byte cap
CliChangelogs ==
    {<< <<"a", 60>>, <<"nl", 1>> >>,
     << <<"a", 60>>, <<"nl", 1>>, <<"c", 1366>> >>}

\* what notify mode may read: nothing, blank lines, a changelog
NotifyInputs == CliChangelogs \cup {<<>>, << <<"nl", 2>> >>}

\* not changelog.strip()
IsBlank(text) == \A i \in 1..Len(text) : text[i][1] \in {"nl", "ws"}

\* what a check of the environment answered: <<check, answer>>
Checked(check, answer) == <<check, answer>>

RefsExistFromOnly(ok_from, ok_to) == ok_from

\* cli.py 276-280: the loop over [from_ref, to_ref] passes
RefsExist(ok_from, ok_to) == ok_from /\ ok_to

\* cli.py 276-280: the loop stops at the first reference not found
RefChecks(ok_from, ok_to) ==
    <<Checked("ref_exists_from", ok_from)>>
    \o (IF ok_from THEN <<Checked("ref_exists_to", ok_to)>> ELSE <<>>)

cliIdle == <<commits, categories, document, all_files, changed_files, diff,
             diff_stat, header, ai_content>>

InitCli ==
    /\ pc = "main"
    /\ args \in CliArgs \cup NotifyArgs
    /\ commits = <<>>
    /\ categories = NoCategories
    /\ document = <<>>
    /\ all_files = <<>>
    /\ changed_files = <<>>
    /\ diff = NoDiff
    /\ diff_stat = NoDiff
    /\ header = <<>>
    /\ ai_content = None
    /\ trace = <<>>
    /\ TruncIdle

\* cli.py 231-245: --version and --notify are served before any check
CliMain ==
    /\ pc = "main"
    /\ IF args.version
       THEN /\ trace' = Append(trace, Printed("version"))
            /\ pc' = "return"
       ELSE /\ trace' = trace
            /\ pc' = IF args.notify THEN "send_existing_changelog"
                     ELSE "is_git_repository"
    /\ UNCHANGED <<args, truncVars, cliIdle>>

\* cli.py 174-225: send_existing_changelog; readable is whether the input
\* file or the piped standard input can be read
CliSendExisting ==
    /\ pc = "send_existing_changelog"
    /\ \E readable \in BOOLEAN, changelog \in NotifyInputs,
          outcome \in WebhookOutcomes :
         IF ~args.webhook_url
         THEN /\ trace' = Append(trace, Printed("webhook_url_not_configured"))
              /\ UNCHANGED truncVars
              /\ pc' = "exit_1"
         ELSE IF ~readable
         THEN /\ trace' = Append(trace, Printed("no_input"))
              /\ UNCHANGED truncVars
              /\ pc' = "exit_1"
         ELSE IF IsBlank(changelog)
         THEN /\ trace' = Append(trace, Printed("empty_changelog"))
              /\ content' = changelog
              /\ UNCHANGED <<result, delivered>>
              /\ pc' = "exit_1"
         ELSE /\ content' = changelog
              /\ result' = truncate_content_for_wecom(changelog, WECOM_MAX_BYTES)
              /\ delivered' = send_changelog_to_wecom(TRUE, changelog, outcome)
              /\ trace' = trace \o
                     <<Printed("sending"), Called("send_changelog_to_wecom"),
                       Printed(IF delivered'.success THEN "sent"
                               ELSE "failed_to_send")>>
              /\ pc' = IF delivered'.success THEN "return" ELSE "exit_1"
    /\ UNCHANGED <<args, cliIdle>>

\* cli.py 247-273: the repository check, --list, and the choice of the
\* references
CliIsGitRepository ==
    /\ pc = "is_git_repository"
    /\ \E ok \in BOOLEAN :
         IF ~ok
         THEN /\ trace' = trace \o <<Checked("is_git_repository", FALSE),
                                     Printed("not_a_git_repository")>>
              /\ pc' = "exit_1"
         ELSE IF args.list
         THEN /\ trace' = trace \o <<Checked("is_git_repository", TRUE),
                                     Called("list_tags")>>
              /\ pc' = "return"
         ELSE IF args.recent # 0
         THEN /\ trace' = Append(trace, Checked("is_git_repository", TRUE))
              /\ pc' = "get_all_tags"
         ELSE IF args.from_ref /\ args.to_ref
         THEN /\ trace' = Append(trace, Checked("is_git_repository", TRUE))
              /\ pc' = "ref_exists"
         ELSE /\ trace' = trace \o <<Checked("is_git_repository", TRUE),
                                     Printed("help")>>
              /\ pc' = "return"
    /\ UNCHANGED <<args, truncVars, cliIdle>>

\* cli.py 258-265: --recent N takes its references from the tags
CliGetAllTags ==
    /\ pc = "get_all_tags"
    /\ \E ntags \in 0..3 :
         IF ntags < args.recent
         THEN /\ trace' = trace \o <<Called("get_all_tags"),
                                     Printed("not_enough_tags")>>
              /\ pc' = "exit_1"
         ELSE /\ trace' = trace \o <<Called("get_all_tags"),
                                     Printed("selected_tags")>>
              /\ pc' = "ref_exists"
    /\ UNCHANGED <<args, truncVars, cliIdle>>

\* cli.py 275-280: both references must exist
CliRefExists ==
    /\ pc = "ref_exists"
    /\ \E ok_from \in BOOLEAN, ok_to \in BOOLEAN :
         IF RefsExist(ok_from, ok_to)
         THEN /\ trace' = trace \o RefChecks(ok_from, ok_to)
              /\ pc' = "run_generate_changelog"
         ELSE /\ trace' = trace \o RefChecks(ok_from, ok_to)
                          \o <<Printed("reference_not_found")>>
              /\ pc' = "exit_1"
    /\ UNCHANGED <<args, truncVars, cliIdle>>

\* cli.py 283-290, 318-323: generate_changelog returns a changelog or
\* raises
CliGenerateChangelog ==
    /\ pc = "run_generate_changelog"
    /\ \E raises \in BOOLEAN, changelog \in CliChangelogs :
         IF raises
         THEN /\ trace' = trace \o <<Called("generate_changelog"),
                                     Printed("generation_failed")>>
              /\ content' = content
              /\ pc' = "exit_1"
         ELSE /\ trace' = Append(trace, Called("generate_changelog"))
              /\ content' = changelog
              /\ pc' = "output"
    /\ UNCHANGED <<args, result, delivered, cliIdle>>

\* cli.py 292-299, 318-323: the changelog is written to --output, which
\* may fail, or printed
CliOutput ==
    /\ pc = "output"
    /\ \E written \in BOOLEAN :
         IF ~args.output
         THEN /\ trace' = Append(trace, Printed("changelog"))
              /\ pc' = "webhook"
         ELSE IF written
         THEN /\ trace' = trace \o <<Called("write_file"), Printed("saved")>>
              /\ pc' = "webhook"
         ELSE /\ trace' = Append(trace, Printed("generation_failed"))
              /\ pc' = "exit_1"
    /\ UNCHANGED <<args, truncVars, cliIdle>>

\* cli.py 301-316: --webhook sends the changelog; a failure is printed
CliWebhook ==
    /\ pc = "webhook"
    /\ \E outcome \in WebhookOutcomes :
         IF ~args.webhook
         THEN /\ trace' = Append(trace, Printed("generation_complete"))
              /\ UNCHANGED <<result, delivered>>
         ELSE IF ~args.webhook_url
         THEN /\ trace' = trace \o <<Printed("webhook_url_not_configured"),
                                     Printed("generation_complete")>>
              /\ UNCHANGED <<result, delivered>>
         ELSE /\ result' = truncate_content_for_wecom(content, WECOM_MAX_BYTES)
              /\ delivered' = send_changelog_to_wecom(TRUE, content, outcome)
              /\ trace' = trace \o
                     <<Printed("sending"), Called("send_changelog_to_wecom"),
                       Printed(IF delivered'.success THEN "sent"
                               ELSE "failed_to_send"),
                       Printed("generation_complete")>>
    /\ pc' = "return"
    /\ UNCHANGED <<args, content, cliIdle>>

NextCli ==
    \/ CliMain
    \/ CliSendExisting
    \/ CliIsGitRepository
    \/ CliGetAllTags
    \/ CliRefExists
    \/ CliGenerateChangelog
    \/ CliOutput
    \/ CliWebhook

SpecCli == InitCli /\ [][NextCli]_vars

----------------------------------------------------------------------------
(* Claims about the truncations (SpecTrunc).                               *)

\* C9: a document of more than 4096 bytes in UTF-8 reaches the webhook
\* delivery as at most 4096 bytes ending with the fixed truncation notice;
\* a document of at most 4096 bytes reaches it unchanged.  What is posted
\* is what truncate_content_for_wecom returned.
C9_WebhookPayloadBounded ==
    pc = "send_changelog_to_wecom" =>
        /\ delivered.posted => delivered.payload = result
        /\ IF ByteLen(content) > WECOM_MAX_BYTES
           THEN /\ ByteLen(result) <= WECOM_MAX_BYTES
                /\ EndsWith(result, WecomNotice)
           ELSE result = content

\* a document of 3- and 4-byte characters over the cap was truncated and posted
C9_Witness ==
    /\ pc = "send_changelog_to_wecom"
    /\ delivered.posted
    /\ ByteLen(content) > WECOM_MAX_BYTES
    /\ {content[i][1] : i \in 1..Len(content)} = {"c", "d"}
    /\ ByteLen(result) <= WECOM_MAX_BYTES
    /\ result # content

\* whether t ends with one of the two truncation notices
EndsWithNotice(t) ==
    \/ EndsWith(t, WecomNotice)
    \/ \E total \in 1..6 : EndsWith(t, << <<"nl", 2>>, <<"n", 48 + total>> >>)

\* C10 as stated: each of the three truncations leaves a visible truncation
\* notice at the cut point, the end of the bounded text.
C10_EveryTruncationLeavesNotice ==
    /\ pc = "get_git_diff" /\ NlCount(content) + 1 > DEFAULT_MAX_DIFF_LINES
           => EndsWithNotice(result)
    /\ pc = "build_ai_prompt" /\ CharLen(CapLines(content)) > DEFAULT_MAX_DIFF_CHARS
           => EndsWithNotice(result)
    /\ pc = "send_changelog_to_wecom" /\ ByteLen(content) > WECOM_MAX_BYTES
           => EndsWithNotice(result)

\* C10 amended: the line cap keeps the first 3000 lines and ends with its
\* notice, the webhook cap keeps a prefix and ends with its notice, and the
\* prompt's character cap is a hard cut: exactly the first 50000 characters
\* of the diff, nothing appended.
C10_TruncationsBounded ==
    /\ pc = "get_git_diff" /\ NlCount(content) + 1 > DEFAULT_MAX_DIFF_LINES
           => \E kept \in {Take(content, NthNl(content, DEFAULT_MAX_DIFF_LINES))} :
                 /\ NlCount(kept) + 1 = DEFAULT_MAX_DIFF_LINES
                 /\ result = Cat(kept, DiffNotice(NlCount(content) + 1))
                 /\ EndsWithNotice(result)
    /\ pc = "build_ai_prompt" /\ CharLen(CapLines(content)) > DEFAULT_MAX_DIFF_CHARS
           => /\ CharLen(result) = DEFAULT_MAX_DIFF_CHARS
              /\ IsPrefix(result, CapLines(content))
    /\ pc = "send_changelog_to_wecom" /\ ByteLen(content) > WECOM_MAX_BYTES
           => /\ EndsWith(result, WecomNotice)
              /\ IsPrefix(Take(result, CharLen(result) - CharLen(WecomNotice)),
                          content)

\* a diff over both caps went through get_git_diff and build_ai_prompt
C10_Witness ==
    /\ pc = "build_ai_prompt"
    /\ NlCount(content) + 1 > DEFAULT_MAX_DIFF_LINES
    /\ CharLen(CapLines(content)) > DEFAULT_MAX_DIFF_CHARS
    /\ CharLen(result) = DEFAULT_MAX_DIFF_CHARS

----------------------------------------------------------------------------
(* Claims about the classifier and the basic report (SpecClassify).        *)

\* whether classify_commits skips the commit: a skip keyword occurs in its
\* lower-cased message
Skipped(commit) ==
    \E k \in 1..Len(SKIP_COMMIT_KEYWORDS) :
        Contains(LowerStr(commit.message), SKIP_COMMIT_KEYWORDS[k])

\* the places <<category, position>> at which the commit is filed
PlacesOf(cats, commit) ==
    {p \in UNION {{k} \X (1..Len(cats[k])) : k \in DOMAIN cats} :
        cats[p[1]][p[2]] = commit}

\* C1: classify_commits files a commit whose lower-cased message contains
\* a skip keyword nowhere and every other commit at exactly one place of
\* exactly one category; every member of a category is a commit of the
\* input, so the members and the skipped commits are exactly the input.
C1_PartitionOrDrop ==
    pc = "classify_commits" =>
        /\ \A i \in 1..Len(commits) :
             Cardinality(PlacesOf(categories, commits[i]))
                 = IF Skipped(commits[i]) THEN 0 ELSE 1
        /\ \A k \in DOMAIN categories :
             Range(categories[k]) \subseteq Range(commits)
        /\ TotalCategorized(categories)
             + Cardinality({i \in 1..Len(commits) : Skipped(commits[i])})
             = Len(commits)

\* three commits were classified: one skipped though it has a keyword of a
\* category, one that matches two categories, one filed elsewhere
C1_Witness ==
    /\ pc = "classify_commits"
    /\ Len(commits) = 3
    /\ \E i, j \in 1..3 :
         /\ Skipped(commits[i])
         /\ Matching(LowerStr(commits[i].message)) # {}
         /\ Cardinality(Matching(LowerStr(commits[j].message))) = 2
         /\ ~Skipped(commits[j])
    /\ TotalCategorized(categories) = 2
    /\ Cardinality({k \in DOMAIN categories : categories[k] # <<>>}) = 2

\* whether the a-th keyword list of COMMIT_KEYWORDS has a keyword in the
\* commit's lower-cased message
Hits(commit, a) ==
    \E k \in 1..Len(COMMIT_KEYWORDS[a][2]) :
        Contains(LowerStr(commit.message), COMMIT_KEYWORDS[a][2][k])

\* C2 as stated: a commit that is not skipped and has a keyword of
\* category A and a keyword of category B, A declared before B in
\* COMMIT_KEYWORDS, is filed under A and not under B; a commit with no
\* keyword of any list is filed under "others".
C2_FirstMatchWins ==
    pc = "classify_commits" =>
        \A i \in 1..Len(commits) :
            ~Skipped(commits[i]) =>
                /\ \A a, b \in 1..Len(COMMIT_KEYWORDS) :
                     a < b /\ Hits(commits[i], a) /\ Hits(commits[i], b) =>
                         /\ commits[i] \in Range(categories[COMMIT_KEYWORDS[a][1]])
                         /\ commits[i] \notin Range(categories[COMMIT_KEYWORDS[b][1]])
                /\ (\A a \in 1..Len(COMMIT_KEYWORDS) : ~Hits(commits[i], a)) =>
                     commits[i] \in Range(categories["others"])

\* C2 amended: a commit that is not skipped and has a keyword of some
\* category is filed under the category declared earliest in
\* COMMIT_KEYWORDS among those it has a keyword of, and under no category
\* declared later, whether it has a keyword of it or not; a commit with no
\* keyword of any list is filed under "others".
C2_EarliestMatchWins ==
    pc = "classify_commits" =>
        \A i \in 1..Len(commits) :
            ~Skipped(commits[i]) =>
                /\ \A a \in 1..Len(COMMIT_KEYWORDS) :
                     Hits(commits[i], a)
                     /\ (\A e \in 1..(a - 1) : ~Hits(commits[i], e)) =>
                         /\ commits[i] \in Range(categories[COMMIT_KEYWORDS[a][1]])
                         /\ \A b \in (a + 1)..Len(COMMIT_KEYWORDS) :
                              commits[i] \notin
                                  Range(categories[COMMIT_KEYWORDS[b][1]])
                         /\ commits[i] \notin Range(categories["others"])
                /\ (\A a \in 1..Len(COMMIT_KEYWORDS) : ~Hits(commits[i], a)) =>
                     commits[i] \in Range(categories["others"])

\* a range was classified with a commit that has keywords of three
\* categories, filed under the first of them, a commit that has keywords
\* of two and a commit that has none
C2_Witness ==
    /\ pc = "classify_commits"
    /\ \E i, j, k \in 1..Len(commits) :
         /\ {a \in 1..Len(COMMIT_KEYWORDS) : Hits(commits[i], a)} = {2, 3, 5}
         /\ commits[i] \in Range(categories["bug_fixes"])
         /\ {a \in 1..Len(COMMIT_KEYWORDS) : Hits(commits[j], a)} = {5, 6}
         /\ commits[j] \in Range(categories["documentation"])
         /\ \A a \in 1..Len(COMMIT_KEYWORDS) : ~Hits(commits[k], a)
         /\ commits[k] \in Range(categories["others"])

\* the titles of the headings of a report, in the report's order
Headings(report) ==
    LET hs == SelectSeq(report, LAMBDA piece : piece[1] = "heading")
    IN [i \in 1..Len(hs) |-> hs[i][2]]

\* the titles CATEGORY_DISPLAY gives the categories with a commit filed,
\* in CATEGORY_DISPLAY's order
TitlesOfFiled(cats) ==
    LET ds == SelectSeq(CATEGORY_DISPLAY, LAMBDA entry : cats[entry[1]] # <<>>)
    IN [i \in 1..Len(ds) |-> ds[i][2]]

\* C8: the headings of the report generate_basic_changelog returns are the
\* titles of the categories that received a commit, one heading each, in
\* the order of CATEGORY_DISPLAY; a category without a commit has no
\* heading.
C8_HeadingsOfFiledCategories ==
    pc = "generate_basic_changelog" =>
        \E cats \in {classify_commits(commits)} :
            /\ Headings(document) = TitlesOfFiled(cats)
            /\ \A k \in 1..Len(CATEGORY_DISPLAY) :
                 cats[CATEGORY_DISPLAY[k][1]] = <<>> =>
                     \A i \in 1..Len(document) :
                         document[i] # <<"heading", CATEGORY_DISPLAY[k][2]>>

\* a report with the styling heading before the documentation heading,
\* the order of CATEGORY_DISPLAY and the reverse of COMMIT_KEYWORDS', and
\* a skipped commit in the range
C8_Witness ==
    /\ pc = "generate_basic_changelog"
    /\ Len(commits) = 3
    /\ \E i \in 1..3 : Skipped(commits[i])
    /\ Headings(document) = <<CATEGORY_DISPLAY[5][2], CATEGORY_DISPLAY[7][2]>>

----------------------------------------------------------------------------
(* Claims about generate_changelog (SpecPipeline).                         *)

\* the kinds of the pieces of a document
Kinds(doc) == {doc[i][1] : i \in 1..Len(doc)}

\* whether the log has an event of the kind
HasKind(tr, kind) == \E i \in 1..Len(tr) : tr[i][1] = kind

\* C3: when generate_changelog returns in AI mode (use_ai set, dry_run
\* unset) for a non-empty range and the AI completion gave no text, for
\* whichever reason, the document is the header followed by the report
\* generate_basic_changelog gives for the same commits, changed files,
\* diff statistics and verbose flag, as basic mode returns it; nothing the
\* failure printed is part of it, and the fallback is announced.
C3_FallbackIsBasicMode ==
    pc = "returned" /\ args.use_ai /\ ~args.dry_run /\ commits # <<>>
                    /\ ~Truthy(ai_content) =>
        /\ document = Header(args.from_ref, args.to_ref, commits)
                      \o generate_basic_changelog(commits, changed_files,
                                                  diff_stat, args.verbose)
        /\ "stats_basic" \in Kinds(document)
        /\ Kinds(document) \subseteq
               {"title", "range", "release_date", "period", "heading",
                "bullet", "blank", "stats_basic", "details"}
        /\ Has(trace, Printed("falling_back"))

\* an HTTP rejection of the completion request ended in the basic report
C3_Witness ==
    /\ pc = "returned"
    /\ args.use_ai /\ ~args.dry_run
    /\ Has(trace, Printed("http_error"))
    /\ ai_content = None
    /\ "heading" \in Kinds(document)
    /\ "details" \in Kinds(document)

\* C4 as stated: in AI mode, when the AI completion gave a text for a
\* non-empty range, the body is that text followed by the statistics
\* footer with the number of commits of the range and the number of
\* changed files not ignored, whatever the diff statistics are, empty
\* ones included.
C4_AiBodyHasFooter ==
    pc = "returned" /\ args.use_ai /\ ~args.dry_run /\ commits # <<>>
                    /\ Truthy(ai_content) =>
        document = Header(args.from_ref, args.to_ref, commits)
                   \o ai_content.text
                   \o << <<"stats_ai", Len(commits), Len(changed_files)>> >>
                   \o Details(diff_stat)

\* C5: in a dry run, with use_ai set or not, call_ai_api is never called,
\* and when generate_changelog returns for a non-empty range the dry-run
\* report has been printed.
C5_DryRunNeverCallsAi ==
    args.dry_run =>
        /\ ~Has(trace, Called("call_ai_api"))
        /\ ~Has(trace, Called("urlopen"))
        /\ pc # "call_ai_api"
        /\ pc = "returned" /\ commits # <<>> =>
               /\ HasKind(trace, "print_dry_run_info")
               /\ document = Header(args.from_ref, args.to_ref, commits)
                             \o << <<"dry_run_placeholder">> >>

\* a dry run with use_ai set and a supported provider returned for a
\* range of three commits with an ignored file among the changed ones
C5_Witness ==
    /\ pc = "returned"
    /\ args.dry_run /\ args.use_ai /\ args.ai_provider \in AI_CONFIGS
    /\ Len(commits) = 3
    /\ HasKind(trace, "print_dry_run_info")
    /\ HasKind(trace, "print_excluded")

\* C6: when get_git_commits gives no commit, generate_changelog returns
\* the title, the range line and the "no changes" notice, in every mode,
\* right after get_git_commits: no get_git_diff_files, no get_git_diff, no
\* get_git_diff_stat, no generate_ai_changelog and no call_ai_api happens.
C6_EmptyRangeReturnsAtOnce ==
    /\ commits = <<>> => pc \in {"generate_changelog", "returned"}
    /\ pc = "returned" /\ commits = <<>> =>
         /\ document = << <<"title">>, <<"range", args.from_ref, args.to_ref>>,
                          <<"no_changes">> >>
         /\ \A name \in {"get_git_diff_files", "get_git_diff",
                         "get_git_diff_stat", "generate_ai_changelog",
                         "call_ai_api", "urlopen"} :
                ~Has(trace, Called(name))

\* an empty range returned in AI mode
C6_Witness ==
    /\ pc = "returned"
    /\ commits = <<>>
    /\ args.use_ai /\ ~args.dry_run
    /\ Has(trace, Called("get_git_commits"))
    /\ "no_changes" \in Kinds(document)

\* C7: for a non-empty range the third piece of the returned document is
\* the date line, which is the release date when the last commit's date
\* (the oldest) equals the first commit's (the newest), and else the
\* change period from the last commit's date to the first commit's; it
\* depends on no other commit.
C7_DateLineFromEnds ==
    pc = "returned" /\ commits # <<>> =>
        \E oldest \in {commits[Len(commits)].date}, newest \in {commits[1].date} :
            document[3] = IF oldest = newest
                          THEN <<"release_date", newest>>
                          ELSE <<"period", oldest, newest>>

\* three commits, the first and the second newer than the third: a period
C7_Witness ==
    /\ pc = "returned"
    /\ Len(commits) = 3
    /\ commits[1].date = "2024-01-05"
    /\ commits[2].date = "2024-01-05"
    /\ commits[3].date = "2024-01-01"
    /\ document[3] = <<"period", "2024-01-01", "2024-01-05">>

----------------------------------------------------------------------------
(* Claims about the command line (SpecCli).                                *)

\* how many times the event is in the log
Count(tr, e) == Cardinality({i \in 1..Len(tr) : tr[i] = e})

C12_WebhookFailureIsFatal ==
    /\ Count(trace, Called("send_changelog_to_wecom")) <= 1
    /\ pc \in {"return", "exit_1"} /\ delivered.posted /\ ~delivered.success
           => pc = "exit_1"

----------------------------------------------------------------------------
(* Claims about format_commit_message (SpecFormat).                        *)

\* whether the message starts with a prefix of COMMIT_PREFIXES, letter
\* case ignored as format_commit_message ignores it
HasPrefix(message) ==
    \E p \in 1..Len(COMMIT_PREFIXES) :
        Len(message) >= Len(COMMIT_PREFIXES[p])
        /\ LowerStr(SubSeq(message, 1, Len(COMMIT_PREFIXES[p])))
               = COMMIT_PREFIXES[p]

\* whether the first character of the message is its own upper case
IsCapitalized(message) ==
    message = <<>> \/ Upper(message[1]) = message[1]

\* C13: for a message that is already capitalized and starts with no
\* prefix of COMMIT_PREFIXES, formatting the formatted message gives the
\* formatted message again.
C13_FormatIdempotent ==
    pc = "format_again" /\ IsCapitalized(content) /\ ~HasPrefix(content) =>
        document = result

\* a capitalized message without a prefix at its start, but with one
\* further on, was formatted twice
C13_Witness ==
    /\ pc = "format_again"
    /\ IsCapitalized(content) /\ ~HasPrefix(content)
    /\ Len(content) > 1
    /\ content[1] = "X"
    /\ \E i \in 2..Len(content) :
           HasPrefix(SubSeq(content, i, Len(content)))
    /\ document = result
    /\ result = content

\* the message without the first prefix of COMMIT_PREFIXES it starts with,
\* letter case ignored; the message itself when it starts with none
WithoutOnePrefix(message) ==
    IF ~HasPrefix(message) THEN message
    ELSE LET p == CHOOSE q \in 1..Len(COMMIT_PREFIXES) :
                      /\ StartsWith(LowerStr(message), COMMIT_PREFIXES[q])
                      /\ \A r \in 1..(q - 1) :
                             ~StartsWith(LowerStr(message), COMMIT_PREFIXES[r])
         IN SubSeq(message, Len(COMMIT_PREFIXES[p]) + 1, Len(message))

\* C18 as stated: for every message, with or without a prefix, the result
\* has no whitespace at either end, at most one prefix is removed, and the
\* result is the trimmed remainder with its first character in upper case.
C18_FormattedIsTrimmed ==
    pc = "format_commit_message" =>
        /\ result # <<>> => ~IsSpace(result[1]) /\ ~IsSpace(result[Len(result)])
        /\ \E trimmed \in {Strip(WithoutOnePrefix(content))} :
               result = IF trimmed = <<>> THEN <<>>
                        ELSE <<Upper(trimmed[1])>> \o Tail(trimmed)

----------------------------------------------------------------------------
(* Further claims about the classifier and the basic report                *)
(* (SpecClassify).                                                         *)

\* the commits of the range that classify_commits does not skip
NotSkipped(list) == {i \in 1..Len(list) : ~Skipped(list[i])}

\* C14 as stated: when no category receives a commit, the range being
\* empty or all its commits skipped, generate_basic_changelog returns the
\* "no changes" notice, without a statistics line.
C14_AllEmptyIsNoChanges ==
    pc = "generate_basic_changelog" /\ NotSkipped(commits) = {} =>
        document = << <<"no_changes_found">> >>

\* whether the commit's lower-cased message has a keyword of the category
HitsCategory(commit, key) ==
    \E a \in 1..Len(COMMIT_KEYWORDS) :
        COMMIT_KEYWORDS[a][1] = key /\ Hits(commit, a)

\* C15 as stated: the categories are tested in the order of the Category
\* enumeration, which is the order of CATEGORY_DISPLAY: a commit that is
\* not skipped is filed under the first category of CATEGORY_DISPLAY it
\* has a keyword of.
C15_TestedInEnumerationOrder ==
    pc = "classify_commits" =>
        \A i \in NotSkipped(commits), a \in 1..Len(CATEGORY_DISPLAY) :
            HitsCategory(commits[i], CATEGORY_DISPLAY[a][1])
            /\ (\A e \in 1..(a - 1) :
                    ~HitsCategory(commits[i], CATEGORY_DISPLAY[e][1])) =>
                commits[i] \in Range(categories[CATEGORY_DISPLAY[a][1]])

\* the statistics lines of a report
StatsLines(report) == SelectSeq(report, LAMBDA piece : piece[1] = "stats_basic")

\* C17: for a non-empty range the report of generate_basic_changelog has
\* one statistics line, which states the number of commits of the range
\* that are not skipped and the length of the list of changed files the
\* builder was given.
C17_StatsCountFiled ==
    pc = "generate_basic_changelog" /\ commits # <<>> =>
        StatsLines(document)
            = << <<"stats_basic", Cardinality(NotSkipped(commits)),
                   Len(changed_files)>> >>

\* a report on three commits, one of them skipped and the other two filed
\* under one category, with one changed file
C17_Witness ==
    /\ pc = "generate_basic_changelog"
    /\ Len(commits) = 3
    /\ Cardinality(NotSkipped(commits)) = 2
    /\ Len(Headings(document)) = 1
    /\ StatsLines(document) = << <<"stats_basic", 2, 1>> >>

\* C20: a commit whose message has a skip keyword, in whichever letter
\* case, is in no category, whether or not the message has keywords of
\* categories as well, and the statistics line of the basic report does
\* not count it.
C20_SkipBeforeCategories ==
    /\ pc = "classify_commits" =>
         \A i \in 1..Len(commits) :
             Skipped(commits[i]) =>
                 \A k \in DOMAIN categories :
                     commits[i] \notin Range(categories[k])
    /\ pc = "generate_basic_changelog" =>
         \A j \in 1..Len(document) :
             document[j][1] = "stats_basic" =>
                 document[j][2] + Cardinality({i \in 1..Len(commits) :
                                                 Skipped(commits[i])})
                     <= Len(commits)

\* "Merge feat: x", with a skip keyword in capitals and a keyword of
\* new_features, was dropped, and the commit after it was filed
C20_Witness ==
    /\ pc = "classify_commits"
    /\ Len(commits) = 2
    /\ Skipped(commits[1])
    /\ commits[1].message[1] = "M"
    /\ HitsCategory(commits[1], "new_features")
    /\ ~Skipped(commits[2])
    /\ TotalCategorized(categories) = 1

----------------------------------------------------------------------------
(* Further claims about generate_changelog (SpecPipeline).                 *)

\* the files the <details> blocks of a document are about
DetailsCover(doc) ==
    UNION {doc[i][2].covers :
             i \in {j \in 1..Len(doc) : doc[j][1] = "details"}}

\* the files the diff and the statistics of the prompts of the dry-run
\* reports are about
PromptsCover(tr) ==
    UNION {tr[i][2].diff_content.covers \cup tr[i][2].diff_stat.covers :
             i \in {j \in 1..Len(tr) : tr[j][1] = "print_dry_run_info"}}

\* C16 as stated: for a non-empty range, the diff and the diff statistics,
\* the ones the prompt is built from and the ones in the returned
\* document, are about files of the filtered list of changed files only,
\* none of which matches an ignore pattern, whichever git command fails.
C16_DiffCoversOnlyFilteredFiles ==
    commits # <<>> =>
        \A f \in diff.covers \cup diff_stat.covers \cup DetailsCover(document)
                 \cup PromptsCover(trace) :
            /\ f \in Range(changed_files)
            /\ ~should_ignore_file(f)

\* C19: for a non-empty range, a dry run returns the header followed by
\* the fixed placeholder and nothing else: no AI text, no section of the
\* basic report, no statistics, and not the text generate_ai_changelog
\* returned.
C19_DryRunReturnsPlaceholder ==
    pc = "returned" /\ args.dry_run /\ commits # <<>> =>
        /\ Len(document) = 4
        /\ document[1] = <<"title">>
        /\ document[2] = <<"range", args.from_ref, args.to_ref>>
        /\ document[3][1] \in {"release_date", "period"}
        /\ document[4] = <<"dry_run_placeholder">>
        /\ Kinds(document) \cap {"ai_text", "heading", "bullet", "stats_basic",
                                 "stats_ai", "details", "dry_run_sentinel"} = {}

\* a dry run without use_ai returned for two commits and a changed file
C19_Witness ==
    /\ pc = "returned"
    /\ args.dry_run /\ ~args.use_ai
    /\ Len(commits) = 2
    /\ changed_files # <<>>
    /\ diff_stat.text # <<>>
    /\ ai_content = DryRunSentinel
    /\ document[4] = <<"dry_run_placeholder">>

----------------------------------------------------------------------------
(* A further claim about the webhook truncation (SpecTrunc).               *)

\* the text of a truncated payload before the notice
KeptText(payload) == Take(payload, CharLen(payload) - CharLen(WecomNotice))

\* the length the loop of truncate_content_for_wecom cuts the document to:
\* the greatest length, a multiple of 100 characters short of the
\* document's, whose prefix fits max_bytes - 100 bytes in UTF-8
ChoppedLen(text) ==
    Max({n \in {CharLen(text) - WECOM_STEP * k :
                  k \in 0..(CharLen(text) \div WECOM_STEP)} :
           ByteLen(Take(text, n)) <= WECOM_MAX_BYTES - WECOM_BUFFER})

\* whether the character of the text at the index, counted from 0, is a
\* line feed
NlAt(text, index) ==
    NlCount(Take(text, index + 1)) = NlCount(Take(text, index)) + 1

\* C21 as stated: the text kept before the notice is a prefix of the
\* document, and when the cut was moved back to a line boundary, the
\* boundary lies beyond the midpoint of the original document.
C21_BoundaryBeyondDocumentMidpoint ==
    pc = "send_changelog_to_wecom" /\ ByteLen(content) > WECOM_MAX_BYTES =>
        /\ IsPrefix(KeptText(result), content)
        /\ CharLen(KeptText(result)) < ChoppedLen(content) =>
               CharLen(KeptText(result)) > CharLen(content) \div 2

\* C21 amended: the text kept before the notice is a prefix of the
\* document, as long as the loop left it or shorter; when it is shorter,
\* the cut was moved back to the last line feed of what the loop left,
\* and that line feed lies beyond the midpoint of what the loop left,
\* wherever the midpoint of the original document is.
C21_BoundaryBeyondChoppedMidpoint ==
    pc = "send_changelog_to_wecom" /\ ByteLen(content) > WECOM_MAX_BYTES =>
        \E kept \in {CharLen(KeptText(result))},
           chopped \in {ChoppedLen(content)} :
            /\ IsPrefix(KeptText(result), content)
            /\ result = Cat(KeptText(result), WecomNotice)
            /\ kept <= chopped
            /\ kept < chopped =>
                 /\ NlAt(content, kept)
                 /\ NlCount(Take(content, chopped))
                        = NlCount(Take(content, kept)) + 1
                 /\ kept > chopped \div 2

\* a document was cut at a line feed that lies beyond the midpoint of what
\* the loop left and before the midpoint of the document
C21_Witness ==
    /\ pc = "send_changelog_to_wecom"
    /\ ByteLen(content) > WECOM_MAX_BYTES
    /\ CharLen(KeptText(result)) < ChoppedLen(content)
    /\ CharLen(KeptText(result)) > ChoppedLen(content) \div 2
    /\ CharLen(KeptText(result)) <= CharLen(content) \div 2
    /\ NlAt(content, CharLen(KeptText(result)))

====
